---- MODULE Spec2Model ----
(***************************************************************************)
(* The client-side session / request lifecycle and view routing of the    *)
(* three revisions of the attendance front end:                           *)
(*   "A"  = src/attendance_system.py                                      *)
(*   "B"  = src/attendance-system/attendance_system.py                    *)
(*   "V3" = src/attendance-system-v3/attendance_system_v3.py              *)
(* A behaviour is a sequence of script runs of one browser session.  A    *)
(* script run starts at pc = "start" (module level code, then main) and   *)
(* ends at pc = "idle"; st.rerun() restarts it at once, st.stop() and an  *)
(* uncaught exception end it.  Every step makes at most one call of       *)
(* call_gas_endpoint, whose transport outcome is chosen by the            *)
(* environment.                                                            *)
(***************************************************************************)
EXTENDS Integers, Sequences, FiniteSets, TLC

VARIABLES
    rev,              \* which revision runs
    endpoint,         \* st.secrets "GAS_ENDPOINT"
    session_token,    \* st.session_state.session_token
    employee_id,      \* st.session_state.employee_id
    employee_name,    \* st.session_state.employee_name
    role,             \* st.session_state.role
    last_activity,    \* st.session_state.last_activity
    clocked_in_today, \* st.session_state.clocked_in_today (revisions A, B)
    otp_purpose,      \* st.session_state.otp_purpose (revision B)
    otp_action,       \* st.session_state.otp_action (revision B)
    otp_form,         \* purpose of the OTP form the current run has rendered
    local,            \* local variables of the tab being rendered
    buttons,          \* ids of the list items whose buttons the run has rendered
    now,              \* datetime.datetime.now(), in seconds
    pc,               \* position of the script run
    event,            \* the widget interaction the running script processes
    view,             \* the page function main last called
    body,             \* the dashboard body past its guard is being rendered
    notice,           \* the st.warning / st.error shown by the current run
    fault,            \* the uncaught exception that ended the run
    lastReq,          \* payload of the most recent requests.post
    lastRes,          \* value returned by the most recent call_gas_endpoint
    lastOut,          \* transport outcome of the most recent call_gas_endpoint
    netIO,            \* the most recent call_gas_endpoint reached the network
    guard,            \* outcome of the most recent guard of this event
    accessIdle,       \* idle seconds seen by the most recent check_session
    teardown,         \* the logout() call site that last cleared the session
    otpAsked          \* purpose of the OTP the backend asked for and that is
                      \* neither verified nor cancelled yet

sessVars == <<session_token, employee_id, employee_name, role, last_activity,
              clocked_in_today>>
callVars == <<lastReq, lastRes, lastOut, netIO>>
histVars == <<guard, accessIdle, teardown>>
otpVars == <<otp_purpose, otp_action>>
tabVars == <<otp_purpose, otp_action, otp_form, local, buttons, otpAsked>>
vars == <<rev, endpoint, session_token, employee_id, employee_name, role,
          last_activity, clocked_in_today, otp_purpose, otp_action, otp_form,
          local, buttons, now, pc, event, view, body, notice, fault, lastReq, lastRes,
          lastOut, netIO, guard, accessIdle, teardown, otpAsked>>

(***************************************************************************)
(* Bounds of the model.                                                    *)
(***************************************************************************)
MaxNow == 601

(***************************************************************************)
(* Python values.                                                          *)
(***************************************************************************)
NoneV == "<None>"
NoTime == -1
TrueV == "true"
FalseV == "false"
Absent == "<absent>"

Truthy(v) == v \notin {NoneV, "", FalseV}

\* the None returned by call_gas_endpoint in revision A
NoneResult == [py_none |-> NoneV]
IsNone(r) == "py_none" \in DOMAIN r
\* `result and ...`: None and the empty dict are falsy
TruthyResult(r) == ~IsNone(r) /\ DOMAIN r # {}
\* dict.get(k, default)
Get(d, k, default) == IF k \in DOMAIN d THEN d[k] ELSE default
\* a dict from a record whose Absent fields are left out
MkDict(f) == [k \in {x \in DOMAIN f : f[x] # Absent} |-> f[k]]

\* str.strip()
RECURSIVE LStrip(_)
LStrip(s) == IF Len(s) > 0 /\ SubSeq(s, 1, 1) = " " THEN LStrip(SubSeq(s, 2, Len(s))) ELSE s
RECURSIVE RStrip(_)
RStrip(s) == IF Len(s) > 0 /\ SubSeq(s, Len(s), Len(s)) = " "
             THEN RStrip(SubSeq(s, 1, Len(s) - 1)) ELSE s
Strip(s) == RStrip(LStrip(s))

\* `sub in s`
Contains(s, sub) ==
    \E i \in 1..(Len(s) - Len(sub) + 1) : SubSeq(s, i, i + Len(sub) - 1) = sub

(***************************************************************************)
(* Configuration.                                                          *)
(***************************************************************************)
Revisions == {"A", "B", "V3"}
Url == "https://script.google.com/macros/s/x/exec"
Endpoints == {Absent, "", "YOUR_GAS_WEB_APP_URL", "YOUR_COPIED_URL_HERE", Url}

\* st.secrets.get("GAS_ENDPOINT", "")
SecretsGet == IF endpoint = Absent THEN "" ELSE endpoint
\* requests raises MissingSchema, before any I/O, for a URL without a scheme
ValidUrl(e) == Len(e) >= 4 /\ SubSeq(e, 1, 4) = "http"

IDLE_LIMIT == 600

(***************************************************************************)
(* The endpoint client.                                                    *)
(***************************************************************************)
EmptyDict == [k \in {} |-> ""]
NoData == EmptyDict
NoReq == EmptyDict

\* what requests.post(...).json() does: raise, or return the decoded reply
Exceptions == {"Timeout", "ConnectionError", "JSONDecodeError", "OtherError"}
Raised(x) == [kind |-> x, reply |-> EmptyDict]
Replied(d) == [kind |-> "json", reply |-> d]

\* mutant of BuildPayload: the session token is never attached
BuildPayloadNoToken(action, data) ==
    [k \in {"action"} \cup DOMAIN data |->
        IF k \in DOMAIN data THEN data[k] ELSE action]

\* payload = {'action': action}; payload.update(data); then the token
BuildPayload(action, data) ==
    LET p1 == [k \in {"action"} \cup DOMAIN data |->
                  IF k \in DOMAIN data THEN data[k] ELSE action]
    IN  IF action # "login" /\ Truthy(session_token)
        THEN [k \in DOMAIN p1 \cup {"sessionToken"} |->
                  IF k = "sessionToken" THEN session_token ELSE p1[k]]
        ELSE p1

NotConfiguredMsg ==
    IF rev = "B" THEN "System not configured. Please contact admin."
    ELSE "System not configured"
\* the placeholder test of revisions B and V3
IsPlaceholder(e) ==
    IF rev = "B" THEN e = "YOUR_GAS_WEB_APP_URL" ELSE Contains(e, "YOUR_GAS")
\* the except clauses of revisions B and V3
ExceptResult(x) ==
    IF x = "Timeout"
    THEN [success |-> FalseV,
          message |-> IF rev = "B" THEN "Connection timeout. Please try again."
                      ELSE "Connection timeout"]
    ELSE IF x = "ConnectionError"
    THEN [success |-> FalseV,
          message |-> IF rev = "B" THEN "Cannot connect to server. Check your internet."
                      ELSE "Cannot connect to server"]
    ELSE [success |-> FalseV, message |-> "System error: " \o x]

\* call_gas_endpoint(action, data) under transport outcome o:
\*   result = the value returned, req = the payload posted (NoReq: nothing
\*   posted), io = the network was reached, out = how the call ended,
\*   shown = the st.error the call itself displays (revision A)
call_gas_endpoint(action, data, o) ==
    IF rev = "A"
    THEN IF ~ValidUrl(endpoint)
         THEN [result |-> NoneResult, req |-> NoReq, io |-> FALSE,
               out |-> "MissingSchema", shown |-> "connection_error"]
         ELSE IF o.kind = "json"
         THEN [result |-> o.reply, req |-> BuildPayload(action, data), io |-> TRUE,
               out |-> "json", shown |-> "none"]
         ELSE [result |-> NoneResult, req |-> BuildPayload(action, data), io |-> TRUE,
               out |-> o.kind, shown |-> "connection_error"]
    ELSE IF ~Truthy(SecretsGet) \/ IsPlaceholder(SecretsGet)
         THEN [result |-> [success |-> FalseV, message |-> NotConfiguredMsg],
               req |-> NoReq, io |-> FALSE, out |-> "not_configured", shown |-> "none"]
         ELSE IF ~ValidUrl(SecretsGet)
         THEN [result |-> ExceptResult("MissingSchema"), req |-> NoReq, io |-> FALSE,
               out |-> "MissingSchema", shown |-> "none"]
         ELSE IF o.kind = "json"
         THEN [result |-> o.reply, req |-> BuildPayload(action, data), io |-> TRUE,
               out |-> "json", shown |-> "none"]
         ELSE [result |-> ExceptResult(o.kind), req |-> BuildPayload(action, data),
               io |-> TRUE, out |-> o.kind, shown |-> "none"]

\* no call was made
NoCall == [result |-> NoneResult, req |-> NoReq, io |-> FALSE, out |-> "none",
           shown |-> "none"]

(***************************************************************************)
(* The session manager and the auth guard.  Each operator gives the effect *)
(* of one call of the function under transport outcome o of the one        *)
(* backend call it may make:                                               *)
(*   ctl  = "return" | "rerun" (st.rerun) | "stop" (st.stop) |             *)
(*          "logout" (the caller goes on to call logout()) | "raise"       *)
(*   ret  = the value returned, sess = st.session_state afterwards,        *)
(*   call = the backend call made, idle = the idle seconds computed,       *)
(*   shown = the messages displayed, guard = how the guard ended           *)
(***************************************************************************)
SESSION_KEYS ==
    IF rev = "V3"
    THEN {"session_token", "employee_id", "employee_name", "role", "last_activity"}
    ELSE {"session_token", "employee_id", "employee_name", "role", "last_activity",
          "clocked_in_today"}

Sess == [session_token |-> session_token, employee_id |-> employee_id,
         employee_name |-> employee_name, role |-> role,
         last_activity |-> last_activity, clocked_in_today |-> clocked_in_today]

NoneOf(k) == IF k = "last_activity" THEN NoTime ELSE NoneV

\* for key in SESSION_KEYS: st.session_state[key] = None
ClearKeys(s) == [k \in DOMAIN s |-> IF k \in SESSION_KEYS THEN NoneOf(k) ELSE s[k]]

Shown(c) == IF c.shown = "none" THEN {} ELSE {c.shown}

\* mutant of logout: the keys are cleared only when the backend confirmed
logout_if_notified(o) ==
    LET c == IF Truthy(session_token)
             THEN call_gas_endpoint("logout", NoData, o) ELSE NoCall
        confirmed == c.out = "none" \/ Truthy(Get(c.result, "success", NoneV))
    IN  [ctl |-> "rerun", ret |-> FALSE,
         sess |-> IF confirmed THEN ClearKeys(Sess) ELSE Sess, call |-> c,
         idle |-> -1, shown |-> Shown(c), guard |-> "none"]

\* mutant of logout: the keys are cleared before the token is tested
logout_clear_first(o) ==
    LET cleared == ClearKeys(Sess)
        c == IF Truthy(cleared.session_token)
             THEN call_gas_endpoint("logout", NoData, o) ELSE NoCall
    IN  [ctl |-> "rerun", ret |-> FALSE, sess |-> cleared, call |-> c,
         idle |-> -1, shown |-> Shown(c), guard |-> "none"]

logout(o) ==
    LET c == IF Truthy(session_token)
             THEN call_gas_endpoint("logout", NoData, o) ELSE NoCall
    IN  [ctl |-> "rerun", ret |-> FALSE, sess |-> ClearKeys(Sess), call |-> c,
         idle |-> -1, shown |-> Shown(c), guard |-> "none"]

\* mutant of check_session: the session expires at 600 s of idle time already
check_session_at_limit(o) ==
    IF ~Truthy(session_token)
    THEN [ctl |-> "return", ret |-> FALSE, sess |-> Sess, call |-> NoCall,
          idle |-> -1, shown |-> {}, guard |-> "anonymous"]
    ELSE IF last_activity # NoTime /\ now - last_activity >= IDLE_LIMIT
    THEN [logout(o) EXCEPT !.idle = now - last_activity, !.guard = "expired"]
    ELSE LET touched == [Sess EXCEPT !.last_activity = now]
             seen == IF last_activity # NoTime THEN now - last_activity ELSE -1
         IN  IF rev = "V3"
             THEN [ctl |-> "return", ret |-> TRUE, sess |-> touched, call |-> NoCall,
                   idle |-> seen, shown |-> {}, guard |-> "ok"]
             ELSE LET c == call_gas_endpoint("checkSession", NoData, o)
                      valid == TruthyResult(c.result)
                               /\ Truthy(Get(c.result, "valid", FalseV))
                  IN  [ctl |-> "return", ret |-> valid, sess |-> touched, call |-> c,
                       idle |-> seen, shown |-> Shown(c),
                       guard |-> IF valid THEN "ok"
                                 ELSE IF c.out = "json" THEN "invalid"
                                 ELSE "no_reply"]

check_session(o) ==
    IF ~Truthy(session_token)
    THEN [ctl |-> "return", ret |-> FALSE, sess |-> Sess, call |-> NoCall,
          idle |-> -1, shown |-> {}, guard |-> "anonymous"]
    ELSE IF last_activity # NoTime /\ now - last_activity > IDLE_LIMIT
    THEN [logout(o) EXCEPT !.idle = now - last_activity, !.guard = "expired"]
    ELSE LET touched == [Sess EXCEPT !.last_activity = now]
             seen == IF last_activity # NoTime THEN now - last_activity ELSE -1
         IN  IF rev = "V3"
             THEN [ctl |-> "return", ret |-> TRUE, sess |-> touched, call |-> NoCall,
                   idle |-> seen, shown |-> {}, guard |-> "ok"]
             ELSE LET c == call_gas_endpoint("checkSession", NoData, o)
                      valid == TruthyResult(c.result)
                               /\ Truthy(Get(c.result, "valid", FalseV))
                  IN  [ctl |-> "return", ret |-> valid, sess |-> touched, call |-> c,
                       idle |-> seen, shown |-> Shown(c),
                       guard |-> IF valid THEN "ok"
                                 ELSE IF c.out = "json" THEN "invalid"
                                 ELSE "no_reply"]

require_auth(o) ==
    LET c == check_session(o)
    IN  IF c.ctl = "rerun" THEN c
        ELSE IF ~c.ret
        THEN IF rev = "V3"
             THEN [c EXCEPT !.ctl = "logout", !.shown = @ \cup {"session_expired"}]
             ELSE [c EXCEPT !.ctl = "stop", !.shown = @ \cup {"please_login"}]
        ELSE c

require_role(required_role, o) ==
    LET a == require_auth(o)
        how == IF Truthy(a.sess.role) THEN "role_mismatch" ELSE "role_missing"
    IN  IF a.ctl # "return" THEN a
        ELSE IF a.sess.role # required_role
        THEN IF rev = "V3"
             THEN [a EXCEPT !.ctl = "logout", !.shown = @ \cup {"unauthorized"},
                            !.guard = how]
             ELSE [a EXCEPT !.ctl = "stop", !.shown = @ \cup {"unauthorized"},
                            !.guard = how]
        ELSE a

(***************************************************************************)
(* The view router: the routing block of main.                             *)
(***************************************************************************)
\* mutant of route: the role is tested before the token
route_role_first(token, r) ==
    IF r = "ADMIN" THEN "ADMIN_DASHBOARD"
    ELSE IF ~Truthy(token) THEN "LOGIN"
    ELSE "EMPLOYEE_DASHBOARD"

route(token, r) ==
    IF ~Truthy(token) THEN "LOGIN"
    ELSE IF r = "ADMIN" THEN "ADMIN_DASHBOARD"
    ELSE "EMPLOYEE_DASHBOARD"

(***************************************************************************)
(* The login page.                                                         *)
(***************************************************************************)
\* a widget interaction: the widget, the text typed into its form (f1, f2)
\* and the number typed into its number input (n)
Ev(kind, f1, f2, n) == [kind |-> kind, f1 |-> f1, f2 |-> f2, n |-> n]
NoEvent == Ev("none", "", "", 0)

\* the assignments of the success branch, in source order:
\* <<session key, "reply" | "form", reply field>>
LoginAssignments ==
    IF rev = "V3"
    THEN << <<"session_token", "reply", "sessionToken">>,
            <<"employee_id", "reply", "employeeId">>,
            <<"employee_name", "reply", "employeeName">>,
            <<"role", "reply", "role">> >>
    ELSE << <<"session_token", "reply", "sessionToken">>,
            <<"employee_id", "form", "">>,
            <<"employee_name", "reply", "employeeName">>,
            <<"role", "reply", "role">> >>

\* the employee_id text input: the second field in revision A, the first in B
FormEmployeeId(ev) == IF rev = "A" THEN ev.f2 ELSE ev.f1

\* index of the first assignment that raises KeyError (Len + 1: none does)
FirstKeyError(result) ==
    LET bad == {i \in 1..Len(LoginAssignments) :
                    /\ LoginAssignments[i][2] = "reply"
                    /\ LoginAssignments[i][3] \notin DOMAIN result}
    IN  IF bad = {} THEN Len(LoginAssignments) + 1
        ELSE CHOOSE i \in bad : \A j \in bad : i <= j

\* st.session_state after the assignments i .. n-1
RECURSIVE Assign(_, _, _, _, _)
Assign(sess, i, n, result, ev) ==
    IF i >= n THEN sess
    ELSE LET a == LoginAssignments[i]
             v == IF a[2] = "reply" THEN result[a[3]] ELSE Strip(FormEmployeeId(ev))
         IN  Assign([sess EXCEPT ![a[1]] = v], i + 1, n, result, ev)

\* the payload fields of the login request
LoginData(ev) ==
    IF rev = "A" THEN [name |-> Strip(ev.f1), employeeId |-> Strip(ev.f2)]
    ELSE IF rev = "B" THEN [employeeId |-> Strip(ev.f1), password |-> Strip(ev.f2)]
    ELSE [name |-> Strip(ev.f1), password |-> Strip(ev.f2)]

\* the validation before dispatch: "ok" or the error displayed
LoginValidation(ev) ==
    IF ev.f1 = "" \/ ev.f2 = "" THEN "enter_both"
    ELSE IF rev = "V3" /\ Len(ev.f2) # 12 THEN "password_length"
    ELSE "ok"

\* `if submitted:` ... of login_page, under transport outcome o
login_submit(ev, o) ==
    IF LoginValidation(ev) # "ok"
    THEN [ctl |-> "return", sess |-> Sess, call |-> NoCall,
          shown |-> {LoginValidation(ev)}, fault |-> "none"]
    ELSE LET c == call_gas_endpoint("login", LoginData(ev), o)
             r == c.result
         IN  IF TruthyResult(r) /\ Truthy(Get(r, "success", NoneV))
             THEN LET n == FirstKeyError(r)
                      done == Assign(Sess, 1, n, r, ev)
                  IN  IF n <= Len(LoginAssignments)
                      THEN [ctl |-> "raise", sess |-> done, call |-> c,
                            shown |-> Shown(c), fault |-> "KeyError"]
                      ELSE [ctl |-> "rerun",
                            sess |-> [done EXCEPT !.last_activity = now],
                            call |-> c, shown |-> Shown(c) \cup {"welcome"},
                            fault |-> "none"]
             ELSE IF rev = "A" /\ IsNone(r)
             THEN [ctl |-> "raise", sess |-> Sess, call |-> c, shown |-> Shown(c),
                   fault |-> "AttributeError"]
             ELSE [ctl |-> "return", sess |-> Sess, call |-> c,
                   shown |-> Shown(c) \cup {"login_failed"}, fault |-> "none"]

(***************************************************************************)
(* The tabs of the dashboards.  Each operator gives the effect of one      *)
(* handler under transport outcome o of the one backend call it may make:  *)
(*   ctl   = "next" (the script goes on) | "rerun" | "raise",              *)
(*   sess  = the session keys of st.session_state afterwards,              *)
(*   call  = the backend call made, shown = the messages displayed,        *)
(*   otp   = st.session_state.otp_purpose / otp_action afterwards,         *)
(*   form  = the OTP form rendered, asked = the OTP still asked for,       *)
(*   local = the local variables afterwards, buttons = the list items      *)
(*           whose buttons are rendered, used = the widget interaction was *)
(*           consumed by this handler                                      *)
(***************************************************************************)
NoLocal == [clocked_in |-> FALSE, clock_out_time |-> FALSE, items |-> <<>>,
            employees |-> <<>>, recipient |-> Absent, target_id |-> Absent,
            data_type |-> Absent]

\* the handler does nothing
Skip ==
    [ctl |-> "next", sess |-> Sess, call |-> NoCall, shown |-> {}, fault |-> "none",
     otp |-> [purpose |-> otp_purpose, action |-> otp_action], form |-> otp_form,
     asked |-> otpAsked, local |-> local, buttons |-> buttons, used |-> FALSE]

\* `result and result.get('success')`
Succeeded(r) == TruthyResult(r) /\ Truthy(Get(r, "success", NoneV))
\* `result and result.get(flag)`
Flagged(r, flag) == TruthyResult(r) /\ Truthy(Get(r, flag, NoneV))

\* datetime.datetime.now().strftime("%Y-%m-%d"): the runs stay within one day
Today == "2024-01-01"
TodayData == IF rev = "A" THEN [date |-> Today] ELSE NoData

\* the mapping that carries clockedIn / clockOutTime in a getTodayAttendance reply
AttendanceOf(r) == IF rev = "A" THEN Get(r, "attendance", EmptyDict) ELSE r

\* attendance_tab: the status computed from the getTodayAttendance result
AttendanceStatus(r) ==
    IF rev = "V3"
    THEN IF TruthyResult(r)
         THEN [clocked_in |-> Truthy(Get(r, "clockedIn", FalseV)),
               clock_out_time |-> Truthy(Get(r, "clockOutTime", NoneV))]
         ELSE [clocked_in |-> FALSE, clock_out_time |-> FALSE]
    ELSE IF Succeeded(r)
         THEN [clocked_in |-> Truthy(Get(AttendanceOf(r), "clockedIn", FalseV)),
               clock_out_time |-> Truthy(Get(AttendanceOf(r), "clockOutTime", NoneV))]
         ELSE [clocked_in |-> FALSE, clock_out_time |-> FALSE]

\* str.isdigit(): every character is a digit, and there is at least one
DigitChars == {"0", "1", "2", "3", "4", "5", "6", "7", "8", "9", "¹", "²", "³"}
isdigit(s) == Len(s) > 0 /\ \A i \in 1..Len(s) : SubSeq(s, i, i) \in DigitChars

OtpCleared == [purpose |-> Absent, action |-> Absent]

\* mutant of handle_otp_flow: a failed generateOTP drops the pending flow
handle_otp_flow_drop_on_failure(purpose, action, ev, o) ==
    LET shownForm == [Skip EXCEPT !.form = purpose]
    IN  IF rev = "B" /\ ev.kind = "otp_cancel"
        THEN [shownForm EXCEPT !.ctl = "rerun", !.otp = OtpCleared, !.asked = "none",
                               !.used = TRUE]
        ELSE IF ev.kind = "otp_request"
        THEN LET c == call_gas_endpoint("generateOTP", [purpose |-> purpose], o)
             IN  [shownForm EXCEPT !.call = c, !.used = TRUE,
                    !.otp = IF Succeeded(c.result) THEN @ ELSE OtpCleared,
                    !.shown = Shown(c) \cup
                              {IF Succeeded(c.result) THEN "otp_sent" ELSE "otp_send_failed"}]
        ELSE IF ev.kind = "otp_submit"
        THEN IF Len(ev.f1) # 6 \/ ~isdigit(ev.f1)
             THEN [shownForm EXCEPT !.shown = {"invalid_otp_format"}, !.used = TRUE]
             ELSE LET c == call_gas_endpoint(action, [otp |-> ev.f1], o)
                  IN  IF Succeeded(c.result)
                      THEN [shownForm EXCEPT !.ctl = "rerun", !.call = c, !.used = TRUE,
                              !.shown = Shown(c) \cup {"otp_verified"},
                              !.otp = IF rev = "B" THEN OtpCleared ELSE @,
                              !.asked = "none"]
                      ELSE [shownForm EXCEPT !.call = c, !.used = TRUE,
                              !.shown = Shown(c) \cup {"otp_invalid"}]
        ELSE shownForm

\* mutant of handle_otp_flow: the resubmission always calls clockIn
handle_otp_flow_clock_in(purpose, action, ev, o) ==
    LET shownForm == [Skip EXCEPT !.form = purpose]
    IN  IF rev = "B" /\ ev.kind = "otp_cancel"
        THEN [shownForm EXCEPT !.ctl = "rerun", !.otp = OtpCleared, !.asked = "none",
                               !.used = TRUE]
        ELSE IF ev.kind = "otp_request"
        THEN LET c == call_gas_endpoint("generateOTP", [purpose |-> purpose], o)
             IN  [shownForm EXCEPT !.call = c, !.used = TRUE,
                    !.shown = Shown(c) \cup
                              {IF Succeeded(c.result) THEN "otp_sent" ELSE "otp_send_failed"}]
        ELSE IF ev.kind = "otp_submit"
        THEN IF Len(ev.f1) # 6 \/ ~isdigit(ev.f1)
             THEN [shownForm EXCEPT !.shown = {"invalid_otp_format"}, !.used = TRUE]
             ELSE LET c == call_gas_endpoint("clockIn", [otp |-> ev.f1], o)
                  IN  IF Succeeded(c.result)
                      THEN [shownForm EXCEPT !.ctl = "rerun", !.call = c, !.used = TRUE,
                              !.shown = Shown(c) \cup {"otp_verified"},
                              !.otp = IF rev = "B" THEN OtpCleared ELSE @,
                              !.asked = "none"]
                      ELSE [shownForm EXCEPT !.call = c, !.used = TRUE,
                              !.shown = Shown(c) \cup {"otp_invalid"}]
        ELSE shownForm

\* handle_otp_flow(purpose, action) on widget interaction ev
handle_otp_flow(purpose, action, ev, o) ==
    LET shownForm == [Skip EXCEPT !.form = purpose]
    IN  IF rev = "B" /\ ev.kind = "otp_cancel"
        THEN [shownForm EXCEPT !.ctl = "rerun", !.otp = OtpCleared, !.asked = "none",
                               !.used = TRUE]
        ELSE IF ev.kind = "otp_request"
        THEN LET c == call_gas_endpoint("generateOTP", [purpose |-> purpose], o)
             IN  [shownForm EXCEPT !.call = c, !.used = TRUE,
                    !.shown = Shown(c) \cup
                              {IF Succeeded(c.result) THEN "otp_sent" ELSE "otp_send_failed"}]
        ELSE IF ev.kind = "otp_submit"
        THEN IF Len(ev.f1) # 6 \/ ~isdigit(ev.f1)
             THEN [shownForm EXCEPT !.shown = {"invalid_otp_format"}, !.used = TRUE]
             ELSE LET c == call_gas_endpoint(action, [otp |-> ev.f1], o)
                  IN  IF Succeeded(c.result)
                      THEN [shownForm EXCEPT !.ctl = "rerun", !.call = c, !.used = TRUE,
                              !.shown = Shown(c) \cup {"otp_verified"},
                              !.otp = IF rev = "B" THEN OtpCleared ELSE @,
                              !.asked = "none"]
                      ELSE [shownForm EXCEPT !.call = c, !.used = TRUE,
                              !.shown = Shown(c) \cup {"otp_invalid"}]
        ELSE shownForm

\* the data sent with clockIn / clockOut
ClockData(action) ==
    IF rev = "A"
    THEN [notes |-> IF action = "clockIn" THEN "ONTIMECLOCKIN" ELSE "ONTIMECLOCKOUT"]
    ELSE NoData

\* mutant of clock_button: a successful clockIn / clockOut stores the
\* employeeName field of its reply in the session
clock_button_stores_name(action, purpose, ev, o) ==
    LET c == call_gas_endpoint(action, ClockData(action), o)
        r == c.result
        base == [Skip EXCEPT !.call = c, !.used = TRUE]
    IN  IF Succeeded(r)
        THEN [base EXCEPT !.ctl = "rerun", !.shown = Shown(c) \cup {"clock_success"},
                          !.sess = [Sess EXCEPT
                                      !.employee_name = Get(r, "employeeName", NoneV)]]
        ELSE IF rev = "A" /\ Flagged(r, "requiresOTP")
        THEN [handle_otp_flow(purpose, action, ev, o) EXCEPT
                !.call = c, !.used = TRUE, !.asked = purpose]
        ELSE IF rev = "B" /\ Flagged(r, "requiresOTP")
        THEN [base EXCEPT !.ctl = "rerun", !.asked = purpose,
                          !.otp = [purpose |-> purpose, action |-> action]]
        ELSE IF rev = "V3" /\ Flagged(r, "requiresApproval")
        THEN [base EXCEPT !.shown = Shown(c) \cup {"use_request_button"}]
        ELSE IF rev = "A" /\ IsNone(r)
        THEN [base EXCEPT !.ctl = "raise", !.fault = "AttributeError", !.shown = Shown(c)]
        ELSE [base EXCEPT !.shown = Shown(c) \cup {"clock_failed"}]

\* attendance_tab: `if st.button("Clock In"): ...` / `if st.button("Clock Out"): ...`
clock_button(action, purpose, ev, o) ==
    LET c == call_gas_endpoint(action, ClockData(action), o)
        r == c.result
        base == [Skip EXCEPT !.call = c, !.used = TRUE]
    IN  IF Succeeded(r)
        THEN [base EXCEPT !.ctl = "rerun", !.shown = Shown(c) \cup {"clock_success"}]
        ELSE IF rev = "A" /\ Flagged(r, "requiresOTP")
        THEN [handle_otp_flow(purpose, action, ev, o) EXCEPT
                !.call = c, !.used = TRUE, !.asked = purpose]
        ELSE IF rev = "B" /\ Flagged(r, "requiresOTP")
        THEN [base EXCEPT !.ctl = "rerun", !.asked = purpose,
                          !.otp = [purpose |-> purpose, action |-> action]]
        ELSE IF rev = "V3" /\ Flagged(r, "requiresApproval")
        THEN [base EXCEPT !.shown = Shown(c) \cup {"use_request_button"}]
        ELSE IF rev = "A" /\ IsNone(r)
        THEN [base EXCEPT !.ctl = "raise", !.fault = "AttributeError", !.shown = Shown(c)]
        ELSE [base EXCEPT !.shown = Shown(c) \cup {"clock_failed"}]

\* attendance_tab (V3): `if st.button("Request Early Clock-In"): ...` and
\* `if st.button("Request Overtime"): ...`
request_button(action, o) ==
    LET c == call_gas_endpoint(action,
                 [notes |-> IF action = "requestEarlyClockIn"
                            THEN "Early clock-in request" ELSE "Overtime request"], o)
    IN  [Skip EXCEPT !.call = c, !.used = TRUE,
           !.shown = {IF Succeeded(c.result) THEN "request_sent" ELSE "request_failed"}]

\* the buttons of attendance_tab on widget interaction ev
attendance_buttons_effect(ev, o) ==
    IF ev.kind = "clock_in" /\ ~local.clocked_in
    THEN clock_button("clockIn", "EARLYCLOCKIN", ev, o)
    ELSE IF ev.kind = "request_early" /\ rev = "V3" /\ ~local.clocked_in
    THEN request_button("requestEarlyClockIn", o)
    ELSE IF ev.kind = "clock_out" /\ local.clocked_in /\ ~local.clock_out_time
    THEN clock_button("clockOut", "OVERTIME", ev, o)
    ELSE IF ev.kind = "request_overtime" /\ rev = "V3"
            /\ local.clocked_in /\ ~local.clock_out_time
    THEN request_button("requestOvertime", o)
    ELSE IF ev.kind = "refresh"
    THEN [Skip EXCEPT !.ctl = "rerun", !.used = TRUE]
    ELSE Skip

\* mutant of InventoryBlocked: only the success of the fetch is tested
InventoryBlockedOnFailure(r) == ~Succeeded(r)

\* inventory_tab: `if not result or not result.get('success') or not ...clockedIn`
InventoryBlocked(r) ==
    ~Succeeded(r) \/ ~Truthy(Get(AttendanceOf(r), "clockedIn", NoneV))

\* {item['product']: item for item in items}: a later item replaces an earlier
\* one of the same product
ItemOptions(items) ==
    [p \in {items[i].product : i \in 1..Len(items)} |->
        items[CHOOSE i \in 1..Len(items) :
                 /\ items[i].product = p
                 /\ \A j \in 1..Len(items) : items[j].product = p => j <= i]]

\* st.number_input(min_value, max_value): what the widget returns when the
\* user has typed `typed`
number_input(min_value, max_value, typed) ==
    IF typed < min_value THEN min_value
    ELSE IF typed > max_value THEN max_value
    ELSE typed

\* mutant of InventoryData: the unit price is the number the user typed
InventoryDataTyped(items, selected, ev) ==
    [item |-> selected, quantity |-> ev.n, unitPrice |-> ev.n]

\* the data of the useInventory request
InventoryData(items, selected, ev) ==
    [item |-> selected, quantity |-> number_input(1, 50, ev.n),
     unitPrice |-> ItemOptions(items)[selected].sellingPrice]

\* mutant of inventory_form_effect: a failed useInventory drops the pending
\* OTP flow
inventory_form_effect_reset(items, selected, ev, o) ==
    IF ev.kind = "inv_submit"
    THEN LET c == call_gas_endpoint("useInventory", InventoryData(items, selected, ev), o)
             base == [Skip EXCEPT !.call = c, !.used = TRUE]
         IN  IF Succeeded(c.result)
             THEN [base EXCEPT !.ctl = IF rev = "B" THEN "rerun" ELSE "next",
                               !.shown = Shown(c) \cup {"transaction_done"}]
             ELSE IF rev = "A" /\ IsNone(c.result)
             THEN [base EXCEPT !.ctl = "raise", !.fault = "AttributeError",
                               !.shown = Shown(c)]
             ELSE [base EXCEPT !.shown = Shown(c) \cup {"transaction_failed"},
                               !.otp = OtpCleared]
    ELSE Skip

\* inventory_tab: the form, with `selected` the value of the selectbox
inventory_form_effect(items, selected, ev, o) ==
    IF ev.kind = "inv_submit"
    THEN LET c == call_gas_endpoint("useInventory", InventoryData(items, selected, ev), o)
             base == [Skip EXCEPT !.call = c, !.used = TRUE]
         IN  IF Succeeded(c.result)
             THEN [base EXCEPT !.ctl = IF rev = "B" THEN "rerun" ELSE "next",
                               !.shown = Shown(c) \cup {"transaction_done"}]
             ELSE IF rev = "A" /\ IsNone(c.result)
             THEN [base EXCEPT !.ctl = "raise", !.fault = "AttributeError",
                               !.shown = Shown(c)]
             ELSE [base EXCEPT !.shown = Shown(c) \cup {"transaction_failed"}]
    ELSE Skip

\* mutant of PasswordValidation: the confirmation field is not compared
PasswordValidationNoConfirm(ev) ==
    IF ev.f1 = "" \/ ev.f2 = "" THEN "enter_and_confirm"
    ELSE IF Len(ev.f1) # 12 THEN "password_length"
    ELSE "ok"

\* password_manager_tab: the validation of the form: "ok" or the error shown
PasswordValidation(ev) ==
    IF ev.f1 = "" \/ ev.f2 = "" THEN "enter_and_confirm"
    ELSE IF Len(ev.f1) # 12 THEN "password_length"
    ELSE IF ev.f1 # ev.f2 THEN "passwords_differ"
    ELSE "ok"

\* {f"{emp['name']} ({emp['employeeId']})": emp['employeeId'] for emp in employees}
EmployeeOptions(employees) ==
    LET label(e) == e.name \o " (" \o e.employeeId \o ")"
    IN  [l \in {label(employees[i]) : i \in 1..Len(employees)} |->
            employees[CHOOSE i \in 1..Len(employees) :
                         /\ label(employees[i]) = l
                         /\ \A j \in 1..Len(employees) :
                               label(employees[j]) = l => j <= i].employeeId]

\* password_manager_tab: the form, with target_id the id of the selected employee
set_password_effect(target_id, ev, o) ==
    IF ev.kind = "set_password"
    THEN IF PasswordValidation(ev) # "ok"
         THEN [Skip EXCEPT !.shown = {PasswordValidation(ev)}, !.used = TRUE]
         ELSE LET c == call_gas_endpoint("setEmployeePassword",
                           [targetEmployeeId |-> target_id, newPassword |-> ev.f1], o)
              IN  [Skip EXCEPT !.call = c, !.used = TRUE,
                     !.shown = {IF Succeeded(c.result) THEN "password_updated"
                                ELSE "password_failed"}]
    ELSE Skip

\* the data sent with getPayslip
PayslipData == IF rev = "A" THEN [month |-> "2024-01"] ELSE NoData

\* messaging_tab / messaging_center_tab (V3): the Send button, with sender
\* and to the values of 'from' and 'to'; to = Absent: the local variable
\* `recipient` was never assigned
send_message_effect(sender, to, ev, o) ==
    IF ev.kind = "send_message"
    THEN IF ev.f1 = ""
         THEN [Skip EXCEPT !.shown = {"enter_message"}, !.used = TRUE]
         ELSE IF to = Absent
         THEN [Skip EXCEPT !.ctl = "raise", !.fault = "NameError", !.used = TRUE]
         ELSE LET c == call_gas_endpoint("sendMessage",
                           [from |-> sender, to |-> to, message |-> ev.f1,
                            type |-> "GENERAL"], o)
              IN  [Skip EXCEPT !.call = c, !.used = TRUE,
                     !.shown = {IF Succeeded(c.result) THEN "message_sent"
                                ELSE "message_failed"}]
    ELSE Skip

\* the messages of the inbox that get a Read button: among the first `most`
\* messages, those addressed to `me` with status UNREAD
UnreadIds(messages, me, most) ==
    LET mine == IF me = "Admin"
                THEN SelectSeq(messages, LAMBDA m : m.to = me)
                ELSE messages
    IN  {mine[i].id : i \in {j \in 1..Len(mine) :
                                j <= most /\ mine[j].to = me /\ mine[j].status = "UNREAD"}}

\* the inbox: getMessages and the rendering of the Read buttons
inbox_effect(me, most, o) ==
    LET c == call_gas_endpoint("getMessages", [employeeName |-> me], o)
    IN  IF Succeeded(c.result)
        THEN [Skip EXCEPT !.call = c, !.shown = Shown(c),
                !.buttons = buttons \cup UnreadIds(Get(c.result, "messages", <<>>), me, most)]
        ELSE [Skip EXCEPT !.call = c, !.shown = Shown(c)]

\* `if st.button("Read", key=f"read_{msg['id']}"): call_gas_endpoint(
\* 'markMessageRead', ...); st.rerun()`
mark_read_effect(ev, o) ==
    IF ev.kind = "read" /\ ev.f1 \in buttons
    THEN [Skip EXCEPT !.ctl = "rerun", !.used = TRUE,
            !.call = call_gas_endpoint("markMessageRead", [messageId |-> ev.f1], o)]
    ELSE Skip

\* the key that carries the id of an approval
ApprovalId(a) == IF rev = "A" THEN a.id ELSE a.approvalId
ApprovalIdsOf(approvals) == {ApprovalId(approvals[i]) : i \in 1..Len(approvals)}

\* the action tag and the data of an approve / reject request
ApprovalAction == IF rev = "V3" THEN "processApproval" ELSE "adminApprove"
ApprovalData(id, decision) ==
    IF rev = "A" THEN [approvalId |-> id, approved |-> decision]
    ELSE [approvalId |-> id, approve |-> decision, adminId |-> employee_id,
          adminName |-> employee_name]

\* the Approve / Deny (Reject) buttons of the approvals rendered by this run
approval_effect(ev, o) ==
    IF ev.kind \in {"approve", "reject"} /\ ev.f1 \in buttons
    THEN LET approve == ev.kind = "approve"
             c == call_gas_endpoint(ApprovalAction,
                      ApprovalData(ev.f1, IF approve THEN TrueV ELSE FalseV), o)
             done == IF approve THEN "approved" ELSE "rejected"
         IN  IF rev = "A"
             THEN [Skip EXCEPT !.ctl = "rerun", !.call = c, !.used = TRUE,
                               !.shown = Shown(c) \cup {done}]
             ELSE IF Succeeded(c.result)
             THEN [Skip EXCEPT !.ctl = "rerun", !.call = c, !.used = TRUE,
                               !.shown = {done}]
             ELSE [Skip EXCEPT !.call = c, !.used = TRUE, !.shown = {"approval_failed"}]
    ELSE Skip

\* admin_dashboard of revision B: the Manual Approval Entry form, with f1 the
\* employee id typed and f2 the action selected
manual_approval_effect(ev, o) ==
    IF ev.kind = "process_approval"
    THEN LET c == call_gas_endpoint("adminApprove",
                      [employeeId |-> ev.f1, type |-> "EARLYCLOCKIN", date |-> Today,
                       approved |-> IF ev.f2 = "APPROVE" THEN TrueV ELSE FalseV], o)
         IN  [Skip EXCEPT !.call = c, !.used = TRUE,
                !.shown = {IF Succeeded(c.result) THEN "approval_processed"
                           ELSE "approval_failed"}]
    ELSE Skip

\* the data sent with getRecentLogs
LogsData == IF rev = "V3" THEN [limit |-> 50] ELSE [limit |-> 20]

(***************************************************************************)
(* Inputs: what the user types, what the backend answers, how time passes. *)
(***************************************************************************)
Idents == {"", " ", "Jane"}
Secrets == {"", "E1", "secret12char", "            "}

Tokens == {"abc", ""}
Roles == {"ADMIN", "EMPLOYEE"}

\* replies to `login`
LoginReplies ==
    { MkDict([success |-> TrueV, sessionToken |-> t, employeeId |-> i,
              employeeName |-> "Jane", role |-> r]) :
        t \in Tokens \cup {Absent},
        i \in (IF rev = "V3" THEN {"E1", Absent} ELSE {Absent}),
        r \in Roles \cup {Absent} }
    \cup { MkDict([success |-> FalseV, message |-> m]) : m \in {"Invalid credentials", Absent} }
    \cup { [message |-> "no success field"] }

\* replies to `checkSession` and `logout`
SessionReplies ==
    { [valid |-> TrueV], [valid |-> FalseV], [success |-> TrueV],
      [success |-> FalseV, message |-> "Invalid session"] }

\* replies to getTodayAttendance
AttendanceReplies ==
    LET status == { MkDict([clockedIn |-> b, clockOutTime |-> t]) :
                      <<b, t>> \in {<<FalseV, Absent>>, <<TrueV, Absent>>,
                                    <<TrueV, "17:00">>} }
    IN  IF rev = "A"
        THEN { [success |-> TrueV, attendance |-> a] : a \in status }
             \cup { [success |-> FalseV, message |-> "denied"] }
        ELSE { [k \in DOMAIN a \cup {"success"} |->
                   IF k = "success" THEN TrueV ELSE a[k]] : a \in status }
             \cup { [success |-> FalseV, message |-> "denied"],
                    [success |-> FalseV, clockedIn |-> TrueV] }

\* replies to clockIn and clockOut
ClockReplies ==
    { [success |-> TrueV],
      [success |-> FalseV, message |-> "Not allowed"],
      [success |-> FalseV],
      [success |-> FalseV, requiresOTP |-> TrueV],
      [success |-> FalseV, requiresApproval |-> TrueV] }

\* replies to generateOTP, to the resubmission with an OTP, to useInventory
\* and to setEmployeePassword
ActionReplies ==
    { [success |-> TrueV, transactionId |-> "T1"],
      [success |-> FalseV, message |-> "Rejected"],
      [success |-> FalseV] }

\* replies to getInventory
ItemLists ==
    { <<>>,
      << [product |-> "Soap", sellingPrice |-> 150] >>,
      << [product |-> "Soap", sellingPrice |-> 150],
         [product |-> "Rice", sellingPrice |-> 60] >>,
      << [product |-> "Soap", sellingPrice |-> 150],
         [product |-> "Soap", sellingPrice |-> 200] >> }
InventoryReplies ==
    { [success |-> TrueV, items |-> l] : l \in ItemLists }
    \cup { [success |-> TrueV], [success |-> FalseV, message |-> "denied"] }

\* replies to getAllEmployees
EmployeesReplies ==
    { [success |-> TrueV, employees |-> << [name |-> "Jane", employeeId |-> "E1"] >>],
      [success |-> TrueV, employees |-> <<>>],
      [success |-> FalseV, message |-> "denied"] }

\* what the user types into the OTP field, the quantity field and the
\* password fields
OtpInputs == {"123456", "12a45", "12345", "12345²"}
QuantityTyped == {0, 1, 50, 51}
PasswordInputs == {"", "short", "secret12char", "secret12chaX"}

\* replies to getPendingApprovals
ApprovalIds == {"P1", "P2"}
Approval(id) ==
    IF rev = "A" THEN [id |-> id, type |-> "OVERTIME"]
    ELSE [approvalId |-> id, type |-> "OVERTIME"]
ApprovalLists == { <<>>, <<Approval("P1")>>, <<Approval("P1"), Approval("P2")>> }
ApprovalsReplies ==
    { [success |-> TrueV, approvals |-> l] : l \in ApprovalLists }
    \cup { [success |-> TrueV], [success |-> FalseV, message |-> "denied"] }

\* replies to getMessages
MessageIds == {"M1", "M2"}
MessageLists ==
    { <<>>,
      << [id |-> "M1", to |-> "Jane", status |-> "UNREAD"],
         [id |-> "M2", to |-> "Admin", status |-> "UNREAD"] >> }
MessagesReplies ==
    { [success |-> TrueV, messages |-> l] : l \in MessageLists }
    \cup { [success |-> FalseV, message |-> "denied"] }
\* what the user types into the message field
MessageTexts == {"", "hello"}

\* replies to the fetches of the dashboards
FetchReplies ==
    { [success |-> TrueV], [success |-> FalseV, message |-> "denied"] }

Outcomes(replies) == {Raised(x) : x \in Exceptions} \cup {Replied(d) : d \in replies}
\* the outcomes of a fetch that only feeds the display
FetchOutcomes(replies) == {Raised("Timeout")} \cup {Replied(d) : d \in replies}

\* seconds that pass between two script runs
Elapsed == {599, 600, 601}

\* the widget interactions the page rendered last offers
Events ==
    {NoEvent}
    \cup (IF view = "LOGIN"
          THEN {Ev("login_submit", a, b, 0) : a \in Idents, b \in Secrets}
               \cup {Ev("login_clear", "", "", 0)}
          ELSE {})
    \cup (IF view \in {"EMPLOYEE_DASHBOARD", "ADMIN_DASHBOARD"} /\ body
          THEN {Ev("logout_click", "", "", 0)}
          ELSE {})
    \cup (IF view = "EMPLOYEE_DASHBOARD" /\ body
          THEN {Ev(k, "", "", 0) : k \in {"clock_in", "clock_out", "refresh"}}
               \cup {Ev("inv_submit", "", "", n) : n \in QuantityTyped}
               \cup (IF rev = "V3"
                     THEN {Ev(k, "", "", 0) : k \in {"request_early", "request_overtime"}}
                     ELSE {})
          ELSE {})
    \cup (IF view \in {"EMPLOYEE_DASHBOARD", "ADMIN_DASHBOARD"} /\ body /\ rev = "V3"
          THEN {Ev("send_message", t, "", 0) : t \in MessageTexts}
               \cup {Ev("read", m, "", 0) : m \in buttons \cap MessageIds}
          ELSE {})
    \cup (IF view = "EMPLOYEE_DASHBOARD" /\ body /\ otp_form # "none"
          THEN {Ev("otp_submit", x, "", 0) : x \in OtpInputs}
               \cup {Ev("otp_request", "", "", 0)}
               \cup (IF rev = "B" THEN {Ev("otp_cancel", "", "", 0)} ELSE {})
          ELSE {})
    \cup (IF view = "ADMIN_DASHBOARD" /\ body /\ rev = "V3"
          THEN {Ev("set_password", a, b, 0) : a \in PasswordInputs, b \in PasswordInputs}
               \cup {Ev(k, "", "", 0) : k \in {"refresh_list", "refresh_logs"}}
          ELSE {})
    \cup (IF view = "ADMIN_DASHBOARD" /\ body /\ rev \in {"A", "V3"}
          THEN {Ev(k, id, "", 0) : k \in {"approve", "reject"},
                                   id \in buttons \cap ApprovalIds}
          ELSE {})
    \cup (IF view = "ADMIN_DASHBOARD" /\ body /\ rev = "B"
          THEN {Ev("process_approval", i, a, 0) : i \in {"", "E1"},
                                                   a \in {"APPROVE", "REJECT"}}
               \cup {Ev(k, "", "", 0) : k \in {"load_employees", "view_logs"}}
          ELSE {})

(***************************************************************************)
(* The state machine.                                                      *)
(***************************************************************************)
Init ==
    /\ rev \in Revisions
    /\ endpoint \in Endpoints
    /\ session_token = NoneV
    /\ employee_id = NoneV
    /\ employee_name = NoneV
    /\ role = NoneV
    /\ last_activity = NoTime
    /\ clocked_in_today = NoneV
    /\ otp_purpose = Absent
    /\ otp_action = Absent
    /\ otp_form = "none"
    /\ local = NoLocal
    /\ buttons = {}
    /\ otpAsked = "none"
    /\ now = 0
    /\ pc = "start"
    /\ event = NoEvent
    /\ view = "NONE"
    /\ body = FALSE
    /\ notice = {}
    /\ fault = "none"
    /\ lastReq = NoReq
    /\ lastRes = NoneResult
    /\ lastOut = "none"
    /\ netIO = FALSE
    /\ guard = <<"none", "none">>
    /\ accessIdle = -1
    /\ teardown = "none"

SetSession(s) ==
    /\ session_token' = s.session_token
    /\ employee_id' = s.employee_id
    /\ employee_name' = s.employee_name
    /\ role' = s.role
    /\ last_activity' = s.last_activity
    /\ clocked_in_today' = s.clocked_in_today

SetCall(c) ==
    IF c.out = "none" THEN UNCHANGED callVars
    ELSE /\ lastReq' = c.req
         /\ lastRes' = c.result
         /\ lastOut' = c.out
         /\ netIO' = c.io

\* time passes while the page waits for the user
Tick ==
    /\ pc = "idle"
    /\ \E d \in Elapsed :
        /\ now + d <= MaxNow
        /\ now' = now + d
    /\ UNCHANGED <<rev, endpoint, sessVars, pc, event, view, body, notice, fault,
                   callVars, histVars, tabVars>>

\* a widget interaction (or a plain reload) starts a script run
UserEvent ==
    /\ pc = "idle"
    /\ \E ev \in Events : event' = ev
    /\ pc' = "start"
    /\ fault' = "none"
    /\ lastReq' = NoReq
    /\ lastRes' = NoneResult
    /\ lastOut' = "none"
    /\ netIO' = FALSE
    /\ guard' = <<"none", "none">>
    /\ accessIdle' = -1
    /\ teardown' = "none"
    /\ body' = FALSE
    /\ notice' = {}
    /\ otp_form' = "none"
    /\ buttons' = {}
    /\ UNCHANGED <<rev, endpoint, sessVars, now, view, otpVars, local, otpAsked>>

\* module level code and the configuration check at the top of main:
\* "crash", "config_error" or "ok"
main_config ==
    IF rev = "A"
    THEN IF endpoint = Absent THEN "crash" ELSE "ok"
    ELSE IF endpoint = Absent \/ IsPlaceholder(endpoint) THEN "config_error"
    ELSE "ok"

Start ==
    /\ pc = "start"
    /\ body' = FALSE
    /\ IF main_config = "crash"
       THEN /\ fault' = "KeyError"
            /\ notice' = {}
            /\ view' = "NONE"
            /\ pc' = "idle"
            /\ event' = NoEvent
       ELSE IF main_config = "config_error"
       THEN /\ notice' = {"not_configured_page"}
            /\ view' = "CONFIG_ERROR"
            /\ pc' = "idle"
            /\ event' = NoEvent
            /\ UNCHANGED fault
       ELSE /\ notice' = {}
            /\ pc' = "main_session"
            /\ UNCHANGED <<fault, view, event>>
    /\ otp_form' = "none"
    /\ local' = NoLocal
    /\ buttons' = {}
    /\ UNCHANGED <<rev, endpoint, sessVars, now, callVars, histVars, otpVars, otpAsked>>

\* main: if st.session_state.session_token: if not check_session(): ...
main_session_check ==
    /\ pc = "main_session"
    /\ IF ~Truthy(session_token)
       THEN /\ pc' = "route"
            /\ UNCHANGED <<sessVars, callVars, histVars, notice, event, otpAsked>>
       ELSE \E o \in Outcomes(SessionReplies) :
            LET c == check_session(o)
            IN  /\ SetSession(c.sess)
                /\ SetCall(c.call)
                /\ guard' = <<"main", c.guard>>
                /\ accessIdle' = c.idle
                /\ otpAsked' = IF c.ctl = "rerun" THEN "none" ELSE otpAsked
                /\ IF c.ctl = "rerun"
                   THEN /\ pc' = "start"
                        /\ teardown' = "idle_expiry"
                        /\ event' = NoEvent
                        /\ notice' = notice \cup c.shown
                   ELSE IF c.ret
                   THEN /\ pc' = "route"
                        /\ notice' = notice \cup c.shown
                        /\ UNCHANGED <<teardown, event>>
                   ELSE /\ pc' = "main_logout"
                        /\ notice' = notice \cup c.shown \cup {"session_expired"}
                        /\ event' = NoEvent
                        /\ UNCHANGED teardown
    /\ UNCHANGED <<rev, endpoint, now, view, body, fault, otpVars, otp_form, local,
                   buttons>>

\* the call sites of logout() that follow a failed guard or a button
LogoutSite ==
    [main_logout |-> "main", auth_logout |-> "require_auth",
     role_logout |-> "require_role", button_logout |-> "button"]

do_logout ==
    /\ pc \in DOMAIN LogoutSite
    /\ \E o \in Outcomes(SessionReplies) :
        LET l == logout(o)
        IN  /\ SetSession(l.sess)
            /\ SetCall(l.call)
            /\ notice' = notice \cup l.shown
    /\ teardown' = LogoutSite[pc]
    /\ pc' = "start"
    /\ event' = NoEvent
    /\ otpAsked' = "none"
    /\ local' = NoLocal
    /\ UNCHANGED <<rev, endpoint, now, view, body, fault, guard, accessIdle,
                   otpVars, otp_form, buttons>>

\* main: the routing block
main_route ==
    /\ pc = "route"
    /\ view' = route(session_token, role)
    /\ pc' = CASE view' = "LOGIN" -> "login_page"
               [] view' = "ADMIN_DASHBOARD" -> "admin_dashboard"
               [] OTHER -> "employee_dashboard"
    /\ UNCHANGED <<rev, endpoint, sessVars, now, event, body, notice, fault,
                   callVars, histVars, tabVars>>

\* login_page(): the configuration notice of revision V3, then the form
login_page ==
    /\ pc = "login_page"
    /\ IF rev = "V3" /\ (endpoint = Absent \/ IsPlaceholder(endpoint))
       THEN /\ notice' = notice \cup {"not_configured_page"}
            /\ pc' = "idle"
            /\ event' = NoEvent
            /\ UNCHANGED <<sessVars, callVars, fault>>
       ELSE IF event.kind = "login_clear"
       THEN /\ pc' = "start"
            /\ event' = NoEvent
            /\ UNCHANGED <<sessVars, callVars, fault, notice>>
       ELSE IF event.kind = "login_submit"
       THEN \E o \in Outcomes(LoginReplies) :
            LET e == login_submit(event, o)
            IN  /\ SetSession(e.sess)
                /\ SetCall(e.call)
                /\ notice' = notice \cup e.shown
                /\ fault' = e.fault
                /\ pc' = IF e.ctl = "rerun" THEN "start" ELSE "idle"
                /\ event' = NoEvent
       ELSE /\ pc' = "idle"
            /\ event' = NoEvent
            /\ UNCHANGED <<sessVars, callVars, fault, notice>>
    /\ UNCHANGED <<rev, endpoint, now, view, body, histVars, tabVars>>

\* the effect of a guard at the top of a page function: e is the effect of
\* require_auth / require_role, fn its name, next the position after it
Guarded(e, fn, next) ==
    /\ SetSession(e.sess)
    /\ SetCall(e.call)
    /\ guard' = <<fn, e.guard>>
    /\ accessIdle' = e.idle
    /\ notice' = notice \cup e.shown
    /\ body' = (e.ctl = "return")
    /\ otpAsked' = IF e.ctl = "rerun" THEN "none" ELSE otpAsked
    /\ UNCHANGED <<otpVars, otp_form, local, buttons>>
    /\ IF e.ctl = "rerun"
       THEN /\ pc' = "start"
            /\ teardown' = "idle_expiry"
            /\ event' = NoEvent
       ELSE /\ pc' = CASE e.ctl = "return" -> next
                      [] e.ctl = "stop" -> "idle"
                      [] e.ctl = "logout" /\ e.guard \in {"role_mismatch", "role_missing"}
                            -> "role_logout"
                      [] OTHER -> "auth_logout"
            /\ event' = IF e.ctl = "return" THEN event ELSE NoEvent
            /\ UNCHANGED teardown

\* employee_dashboard(): require_auth()
employee_dashboard ==
    /\ pc = "employee_dashboard"
    /\ \E o \in Outcomes(SessionReplies) :
        Guarded(require_auth(o), "require_auth",
                IF rev = "V3" THEN "dashboard_header" ELSE "attendance_tab")
    /\ UNCHANGED <<rev, endpoint, now, view, fault>>

\* admin_dashboard(): require_role('ADMIN')
admin_dashboard ==
    /\ pc = "admin_dashboard"
    /\ \E o \in Outcomes(SessionReplies) :
        Guarded(require_role("ADMIN", o), "require_role", "dashboard_header")
    /\ UNCHANGED <<rev, endpoint, now, view, fault>>

\* mutant of HeaderAction: both dashboards fetch the admin statistics
HeaderActionAdmin == "getAdminDashboard"

\* the fetch in the header of the V3 dashboards
HeaderAction == IF view = "ADMIN_DASHBOARD" THEN "getAdminDashboard" ELSE "getTodayAttendance"

dashboard_header ==
    /\ pc = "dashboard_header"
    /\ IF rev = "V3"
       THEN \E o \in Outcomes(FetchReplies) :
            LET c == call_gas_endpoint(HeaderAction, NoData, o)
            IN  SetCall(c) /\ notice' = notice \cup Shown(c)
       ELSE UNCHANGED <<callVars, notice>>
    /\ pc' = IF view = "ADMIN_DASHBOARD"
             THEN IF rev = "B" THEN "manual_approval" ELSE "pending_approvals_tab"
             ELSE "logout_button"
    /\ UNCHANGED <<rev, endpoint, sessVars, now, event, view, body, fault, histVars,
                   tabVars>>

\* if st.button("Logout"): logout()
logout_button ==
    /\ pc = "logout_button"
    /\ IF event.kind = "logout_click"
       THEN pc' = "button_logout" /\ event' = NoEvent
       ELSE IF rev = "V3" /\ view = "EMPLOYEE_DASHBOARD"
       THEN pc' = "attendance_tab" /\ UNCHANGED event
       ELSE pc' = "idle" /\ event' = NoEvent
    /\ UNCHANGED <<rev, endpoint, sessVars, now, view, body, notice, fault,
                   callVars, histVars, tabVars>>

\* the effect of a handler of a tab: e is its effect, next the position
\* after it
Tabbed(e, next) ==
    /\ SetSession(e.sess)
    /\ SetCall(e.call)
    /\ notice' = notice \cup e.shown
    /\ fault' = e.fault
    /\ otp_purpose' = e.otp.purpose
    /\ otp_action' = e.otp.action
    /\ otp_form' = e.form
    /\ otpAsked' = e.asked
    /\ buttons' = e.buttons
    /\ IF e.ctl = "rerun"
       THEN pc' = "start" /\ event' = NoEvent /\ local' = NoLocal
       ELSE IF e.ctl = "raise" \/ next = "idle"
       THEN pc' = "idle" /\ event' = NoEvent /\ local' = NoLocal
       ELSE /\ pc' = next
            /\ event' = IF e.used THEN NoEvent ELSE event
            /\ local' = e.local
    /\ UNCHANGED <<rev, endpoint, now, view, body, histVars>>

\* where the script goes after the tabs of the employee dashboard
EmployeeTabsEnd == IF rev = "V3" THEN "idle" ELSE "logout_button"

\* attendance_tab(): the status fetch
attendance_tab ==
    /\ pc = "attendance_tab"
    /\ \E o \in FetchOutcomes(AttendanceReplies) :
        LET c == call_gas_endpoint("getTodayAttendance", TodayData, o)
            status == AttendanceStatus(c.result)
        IN  Tabbed([Skip EXCEPT !.call = c, !.shown = Shown(c),
                                !.local = [local EXCEPT
                                    !.clocked_in = status.clocked_in,
                                    !.clock_out_time = status.clock_out_time]],
                   "attendance_buttons")

\* attendance_tab(): the buttons
attendance_buttons ==
    /\ pc = "attendance_buttons"
    /\ \E o \in Outcomes(ClockReplies) :
        Tabbed([attendance_buttons_effect(event, o) EXCEPT !.local = NoLocal],
               IF rev = "B" THEN "otp_flow" ELSE "inventory_tab")

\* attendance_tab() of revision B: `if 'otp_purpose' in st.session_state and
\* st.session_state.otp_purpose: handle_otp_flow(...)`
otp_flow ==
    /\ pc = "otp_flow"
    /\ IF otp_purpose # Absent /\ Truthy(otp_purpose)
       THEN \E o \in Outcomes(ActionReplies) :
                Tabbed(handle_otp_flow(otp_purpose, otp_action, event, o), "inventory_tab")
       ELSE Tabbed(Skip, "inventory_tab")

\* inventory_tab(): the clocked-in check
inventory_tab ==
    /\ pc = "inventory_tab"
    /\ \E o \in FetchOutcomes(AttendanceReplies) :
        LET c == call_gas_endpoint("getTodayAttendance", TodayData, o)
        IN  IF InventoryBlocked(c.result)
            THEN Tabbed([Skip EXCEPT !.call = c,
                                     !.shown = Shown(c) \cup {"must_clock_in"}],
                        "payslip_tab")
            ELSE Tabbed([Skip EXCEPT !.call = c, !.shown = Shown(c)], "inventory_fetch")

\* inventory_tab(): the item list
inventory_fetch ==
    /\ pc = "inventory_fetch"
    /\ \E o \in FetchOutcomes(InventoryReplies) :
        LET c == call_gas_endpoint("getInventory", NoData, o)
            items == Get(c.result, "items", <<>>)
        IN  IF ~Succeeded(c.result)
            THEN Tabbed([Skip EXCEPT !.call = c,
                                     !.shown = Shown(c) \cup {"inventory_unavailable"}],
                        "payslip_tab")
            ELSE IF rev # "A" /\ items = <<>>
            THEN Tabbed([Skip EXCEPT !.call = c, !.shown = {"no_items"}], "payslip_tab")
            ELSE Tabbed([Skip EXCEPT !.call = c, !.local = [local EXCEPT !.items = items]],
                        "inventory_form")

\* inventory_tab(): the form
inventory_form ==
    /\ pc = "inventory_form"
    /\ IF local.items = <<>>
       THEN Tabbed([Skip EXCEPT !.local = NoLocal, !.used = TRUE], "payslip_tab")
       ELSE \E selected \in DOMAIN ItemOptions(local.items), o \in Outcomes(ActionReplies) :
                Tabbed([inventory_form_effect(local.items, selected, event, o)
                           EXCEPT !.local = NoLocal, !.used = TRUE],
                       "payslip_tab")

\* payslip_tab(): the payslip is fetched and displayed
payslip_tab ==
    /\ pc = "payslip_tab"
    /\ \E o \in FetchOutcomes(FetchReplies) :
        LET c == call_gas_endpoint("getPayslip", PayslipData, o)
        IN  Tabbed([Skip EXCEPT !.call = c, !.shown = Shown(c)],
                   IF rev = "V3" THEN "messaging_tab" ELSE EmployeeTabsEnd)

\* messaging_tab() (V3): the Send Message button
messaging_tab ==
    /\ pc = "messaging_tab"
    /\ \E o \in Outcomes(ActionReplies) :
        Tabbed(send_message_effect(employee_name, "Admin", event, o), "messaging_inbox")

\* messaging_tab() (V3): the inbox
messaging_inbox ==
    /\ pc = "messaging_inbox"
    /\ \E o \in FetchOutcomes(MessagesReplies) :
        Tabbed(inbox_effect(employee_name, 10, o), "messaging_read")

\* messaging_tab() (V3): the Read buttons of the inbox
messaging_read ==
    /\ pc = "messaging_read"
    /\ \E o \in FetchOutcomes(FetchReplies) :
        Tabbed(mark_read_effect(event, o), EmployeeTabsEnd)

\* the Approvals tab of admin_dashboard (A), pending_approvals_tab() (V3):
\* the list of pending approvals
pending_approvals_tab ==
    /\ pc = "pending_approvals_tab"
    /\ \E o \in FetchOutcomes(ApprovalsReplies) :
        LET c == call_gas_endpoint("getPendingApprovals", NoData, o)
            approvals == Get(c.result, "approvals", <<>>)
        IN  IF ~Succeeded(c.result)
            THEN Tabbed([Skip EXCEPT !.call = c,
                            !.shown = Shown(c) \cup
                                (IF rev = "V3" THEN {"approvals_unavailable"} ELSE {})],
                        "employee_management_tab")
            ELSE IF approvals = <<>>
            THEN Tabbed([Skip EXCEPT !.call = c, !.shown = {"no_approvals"}],
                        "employee_management_tab")
            ELSE Tabbed([Skip EXCEPT !.call = c,
                            !.buttons = buttons \cup ApprovalIdsOf(approvals)],
                        "approval_buttons")

\* the Approve / Deny (Reject) buttons of the list
approval_buttons ==
    /\ pc = "approval_buttons"
    /\ \E o \in Outcomes(ActionReplies) :
        Tabbed(approval_effect(event, o), "employee_management_tab")

\* the Approvals tab of admin_dashboard (B): the Manual Approval Entry form
manual_approval ==
    /\ pc = "manual_approval"
    /\ \E o \in Outcomes(ActionReplies) :
        Tabbed(manual_approval_effect(event, o), "employee_management_tab")

\* the Employees tab of admin_dashboard (A, B), employee_management_tab() (V3)
employee_management_tab ==
    /\ pc = "employee_management_tab"
    /\ LET next == IF rev = "V3" THEN "password_manager_tab" ELSE "system_logs_tab"
       IN  IF rev = "V3" /\ event.kind = "refresh_list"
           THEN Tabbed([Skip EXCEPT !.ctl = "rerun", !.used = TRUE], next)
           ELSE IF rev = "B" /\ event.kind # "load_employees"
           THEN Tabbed(Skip, next)
           ELSE \E o \in FetchOutcomes(EmployeesReplies) :
                LET c == call_gas_endpoint("getAllEmployees", NoData, o)
                IN  Tabbed([Skip EXCEPT !.call = c, !.shown = Shown(c),
                                        !.used = (rev = "B")], next)

\* password_manager_tab(): the employee list
password_manager_tab ==
    /\ pc = "password_manager_tab"
    /\ \E o \in FetchOutcomes(EmployeesReplies) :
        LET c == call_gas_endpoint("getAllEmployees", NoData, o)
        IN  IF ~Succeeded(c.result)
            THEN Tabbed([Skip EXCEPT !.call = c, !.shown = {"employees_unavailable"}],
                        "view_employee_data_tab")
            ELSE Tabbed([Skip EXCEPT !.call = c,
                            !.local = [local EXCEPT
                                !.employees = Get(c.result, "employees", <<>>)]],
                        "set_password_form")

\* password_manager_tab(): the form; st.selectbox returns None when it has no
\* options, and employee_options[None] raises KeyError
set_password_form ==
    /\ pc = "set_password_form"
    /\ IF local.employees = <<>>
       THEN Tabbed([Skip EXCEPT !.ctl = "raise", !.fault = "KeyError"], "logout_button")
       ELSE \E selected \in DOMAIN EmployeeOptions(local.employees),
               o \in Outcomes(ActionReplies) :
                Tabbed([set_password_effect(EmployeeOptions(local.employees)[selected],
                                            event, o)
                           EXCEPT !.local = NoLocal],
                       "view_employee_data_tab")

\* view_employee_data_tab() (V3): the employee list and the two selectboxes
view_employee_data_tab ==
    /\ pc = "view_employee_data_tab"
    /\ \E o \in FetchOutcomes(EmployeesReplies) :
        LET c == call_gas_endpoint("getAllEmployees", NoData, o)
            employees == Get(c.result, "employees", <<>>)
        IN  IF ~Succeeded(c.result) \/ employees = <<>>
            THEN Tabbed([Skip EXCEPT !.call = c], "messaging_center_tab")
            ELSE \E selected \in DOMAIN EmployeeOptions(employees),
                    data_type \in {"Payslip", "Inventory", "Both"} :
                 Tabbed([Skip EXCEPT !.call = c,
                            !.local = [local EXCEPT
                                !.target_id = EmployeeOptions(employees)[selected],
                                !.data_type = data_type]],
                        "view_employee_payslip")

\* view_employee_data_tab() (V3): `if data_type in ["Payslip", "Both"]:`
view_employee_payslip ==
    /\ pc = "view_employee_payslip"
    /\ IF local.data_type \in {"Payslip", "Both"}
       THEN \E o \in FetchOutcomes(FetchReplies) :
            Tabbed([Skip EXCEPT !.call = call_gas_endpoint("getEmployeePayslip",
                                             [employeeId |-> local.target_id], o)],
                   "view_employee_inventory")
       ELSE Tabbed(Skip, "view_employee_inventory")

\* view_employee_data_tab() (V3): `if data_type in ["Inventory", "Both"]:`
view_employee_inventory ==
    /\ pc = "view_employee_inventory"
    /\ IF local.data_type \in {"Inventory", "Both"}
       THEN \E o \in FetchOutcomes(FetchReplies) :
            Tabbed([Skip EXCEPT !.call = call_gas_endpoint("getEmployeeInventory",
                                             [employeeId |-> local.target_id], o),
                                !.local = NoLocal],
                   "messaging_center_tab")
       ELSE Tabbed([Skip EXCEPT !.local = NoLocal], "messaging_center_tab")

\* messaging_center_tab() (V3): the recipient list
messaging_center_tab ==
    /\ pc = "messaging_center_tab"
    /\ \E o \in FetchOutcomes(EmployeesReplies) :
        LET c == call_gas_endpoint("getAllEmployees", NoData, o)
            employees == Get(c.result, "employees", <<>>)
        IN  IF Succeeded(c.result)
            THEN \E to \in {"ALL EMPLOYEES"} \cup
                            {employees[i].name : i \in 1..Len(employees)} :
                 Tabbed([Skip EXCEPT !.call = c,
                                     !.local = [NoLocal EXCEPT !.recipient = to]],
                        "messaging_center_send")
            ELSE Tabbed([Skip EXCEPT !.call = c, !.local = NoLocal],
                        "messaging_center_send")

\* messaging_center_tab() (V3): the Send button
messaging_center_send ==
    /\ pc = "messaging_center_send"
    /\ \E o \in Outcomes(ActionReplies) :
        Tabbed([send_message_effect("Admin", local.recipient, event, o)
                   EXCEPT !.local = NoLocal],
               "messaging_center_inbox")

\* messaging_center_tab() (V3): the inbox
messaging_center_inbox ==
    /\ pc = "messaging_center_inbox"
    /\ \E o \in FetchOutcomes(MessagesReplies) :
        Tabbed(inbox_effect("Admin", 20, o), "messaging_center_read")

\* messaging_center_tab() (V3): the Mark Read buttons of the inbox
messaging_center_read ==
    /\ pc = "messaging_center_read"
    /\ \E o \in FetchOutcomes(FetchReplies) :
        Tabbed(mark_read_effect(event, o), "system_logs_tab")

\* the Logs tab of admin_dashboard (A, B), system_logs_tab() (V3)
system_logs_tab ==
    /\ pc = "system_logs_tab"
    /\ IF rev = "V3" /\ event.kind = "refresh_logs"
       THEN Tabbed([Skip EXCEPT !.ctl = "rerun", !.used = TRUE], "logout_button")
       ELSE IF rev = "B" /\ event.kind # "view_logs"
       THEN Tabbed(Skip, "logout_button")
       ELSE \E o \in FetchOutcomes(FetchReplies) :
            LET c == call_gas_endpoint("getRecentLogs", LogsData, o)
            IN  Tabbed([Skip EXCEPT !.call = c, !.shown = Shown(c),
                                    !.used = (rev = "B")], "logout_button")

Next ==
    \/ Tick
    \/ UserEvent
    \/ Start
    \/ main_session_check
    \/ do_logout
    \/ main_route
    \/ login_page
    \/ employee_dashboard
    \/ admin_dashboard
    \/ dashboard_header
    \/ logout_button
    \/ attendance_tab
    \/ attendance_buttons
    \/ otp_flow
    \/ inventory_tab
    \/ inventory_fetch
    \/ inventory_form
    \/ payslip_tab
    \/ messaging_tab
    \/ messaging_inbox
    \/ messaging_read
    \/ pending_approvals_tab
    \/ approval_buttons
    \/ manual_approval
    \/ employee_management_tab
    \/ password_manager_tab
    \/ set_password_form
    \/ view_employee_data_tab
    \/ view_employee_payslip
    \/ view_employee_inventory
    \/ messaging_center_tab
    \/ messaging_center_send
    \/ messaging_center_inbox
    \/ messaging_center_read
    \/ system_logs_tab

Spec == Init /\ [][Next]_vars

(***************************************************************************)
(* The guards as functions: a page function guarded by require_auth() or   *)
(* by require_role(r) is run on whatever session exists, outside the       *)
(* routing of main.                                                        *)
(***************************************************************************)
open_guarded_page ==
    /\ pc = "idle"
    /\ \E fn \in {"require_auth", "require_role"}, r \in Roles :
        event' = Ev("guarded_page", fn, r, 0)
    /\ pc' = "guarded_page"
    /\ body' = FALSE
    /\ notice' = {}
    /\ fault' = "none"
    /\ lastReq' = NoReq
    /\ lastRes' = NoneResult
    /\ lastOut' = "none"
    /\ netIO' = FALSE
    /\ guard' = <<"none", "none">>
    /\ accessIdle' = -1
    /\ teardown' = "none"
    /\ UNCHANGED <<rev, endpoint, sessVars, now, view, tabVars>>

guarded_page ==
    /\ pc = "guarded_page"
    /\ \E o \in Outcomes(SessionReplies) :
        IF event.f1 = "require_auth"
        THEN Guarded(require_auth(o), "require_auth", "idle")
        ELSE Guarded(require_role(event.f2, o), "require_role", "idle")
    /\ UNCHANGED <<rev, endpoint, now, view, fault>>

NextGuard == Next \/ open_guarded_page \/ guarded_page

SpecGuard == Init /\ [][NextGuard]_vars

(***************************************************************************)
(* Properties.                                                             *)
(***************************************************************************)
AllKeysNone == \A k \in SESSION_KEYS : Sess[k] = NoneOf(k)
ReqAction == Get(lastReq, "action", "")
GuardSites == {"main", "require_auth", "require_role"}

\* C1: in every reachable state session_token is non-empty if and only if
\* role is non-empty.
C1_TokenIffRole == Truthy(session_token) <=> Truthy(role)

\* C2 (as claimed): an idle-expired guarded access has cleared every session
\* key, and no logout follows a guarded access whose idle time is below 600 s
\* (here: one whose checkSession call, if any, was answered by the backend).
C2_NoLogoutBelowLimit ==
    /\ accessIdle > IDLE_LIMIT => AllKeysNone
    /\ ~(/\ teardown \in GuardSites
         /\ accessIdle >= 0 /\ accessIdle < IDLE_LIMIT
         /\ guard[2] # "no_reply")

\* C2 (amended): check_session itself tears the session down exactly when
\* the idle time exceeds 600 s, clearing every session key; a logout that
\* follows an access with idle time of at most 600 s is the one main performs
\* in revisions A and B when checkSession does not return valid=true.
C2_IdleExpiry ==
    /\ accessIdle > IDLE_LIMIT => teardown = "idle_expiry" /\ AllKeysNone
    /\ teardown = "idle_expiry" => accessIdle > IDLE_LIMIT
    /\ (teardown \in GuardSites /\ accessIdle >= 0 /\ accessIdle <= IDLE_LIMIT)
          => /\ rev \in {"A", "B"}
             /\ teardown = "main"
             /\ guard \in {<<"main", "invalid">>, <<"main", "no_reply">>}

C2_Witness ==
    /\ accessIdle = 601
    /\ teardown = "idle_expiry"
    /\ AllKeysNone
    /\ ReqAction = "logout"

\* C3: the login reply {success: true, employeeName: "Jane", role: "ADMIN",
\* sessionToken: "abc"} leaves the session authenticated with token "abc",
\* role ADMIN, employee_name "Jane" and last_activity = now.
SpecLoginReply ==
    [success |-> TrueV, employeeName |-> "Jane", role |-> "ADMIN", sessionToken |-> "abc"]

C3_LoginStoresReply ==
    (ReqAction = "login" /\ lastOut = "json" /\ lastRes = SpecLoginReply)
    => /\ session_token = "abc"
       /\ role = "ADMIN"
       /\ employee_name = "Jane"
       /\ last_activity = now

\* C4: after logout() every key of SESSION_KEYS is None, whatever the
\* outcome of the backend notification.
C4_LogoutClearsAll == teardown # "none" => AllKeysNone

C4_Witness ==
    /\ teardown = "button"
    /\ pc = "start"
    /\ ReqAction = "logout"
    /\ lastOut = "Timeout"
    /\ AllKeysNone

\* C5: with the endpoint absent, empty or a placeholder, every call returns
\* success=false with a "not configured" message without network I/O, and
\* no script run ends in an uncaught exception.
Unconfigured == endpoint \in {Absent, "", "YOUR_GAS_WEB_APP_URL"}

C5_NotConfigured ==
    Unconfigured =>
        /\ fault = "none"
        /\ lastOut # "none" =>
              /\ lastOut = "not_configured"
              /\ ~netIO
              /\ ~IsNone(lastRes)
              /\ Get(lastRes, "success", NoneV) = FalseV
              /\ Contains(Get(lastRes, "message", ""), "not configured")

\* C6: a transport failure makes call_gas_endpoint return a mapping with
\* success=false and a message.
C6_UniformEnvelope ==
    lastOut \in Exceptions =>
        /\ ~IsNone(lastRes)
        /\ Get(lastRes, "success", NoneV) = FalseV
        /\ "message" \in DOMAIN lastRes

\* C7: every request dispatched with an action other than login carries the
\* session token current at dispatch, and a login request carries none.
C7_TokenAttached ==
    [][(lastReq' # NoReq /\ <<lastReq', lastOut'>> # <<lastReq, lastOut>>)
          => IF lastReq'.action = "login"
             THEN "sessionToken" \notin DOMAIN lastReq'
             ELSE /\ "sessionToken" \in DOMAIN lastReq'
                  /\ lastReq'.sessionToken = session_token
                  /\ Truthy(session_token)]_vars

C7_Witness ==
    /\ ReqAction \in {"checkSession", "getTodayAttendance", "getAdminDashboard"}
    /\ lastReq.sessionToken = "abc"
    /\ session_token = "abc"

\* C8: when require_auth fails, the session is anonymous once the script
\* run has ended and the body of the view was not rendered.
C8_AuthFailureLogsOut ==
    (/\ pc = "idle"
     /\ guard[1] = "require_auth"
     /\ guard[2] \in {"anonymous", "expired", "invalid"})
    => ~Truthy(session_token) /\ ~body

\* C9: when require_role(r) finds role # r on an authenticated session, the
\* session is anonymous once the script run has ended and the body of the
\* view was not rendered.
C9_RoleMismatchLogsOut ==
    (pc = "idle" /\ guard = <<"require_role", "role_mismatch">>)
    => ~Truthy(session_token) /\ ~body

\* C10: the page function main calls is determined by the session: no token
\* gives the login page, a token with role ADMIN the admin dashboard, a
\* token with any other role the employee dashboard; the routing block
\* selects no other view.
C10_RouteBySession ==
    /\ pc = "login_page" => ~Truthy(session_token) /\ view = "LOGIN"
    /\ pc = "admin_dashboard" =>
          Truthy(session_token) /\ role = "ADMIN" /\ view = "ADMIN_DASHBOARD"
    /\ pc = "employee_dashboard" =>
          Truthy(session_token) /\ role # "ADMIN" /\ view = "EMPLOYEE_DASHBOARD"
    /\ main_config = "ok" =>
          view \in {"NONE", "LOGIN", "ADMIN_DASHBOARD", "EMPLOYEE_DASHBOARD"}
    /\ pc \in {"dashboard_header", "logout_button", "button_logout"} =>
          view \in {"ADMIN_DASHBOARD", "EMPLOYEE_DASHBOARD"}

C10_Witness ==
    /\ pc = "employee_dashboard"
    /\ session_token = "abc"
    /\ role = NoneV

\* the pending OTP flow of the client: the purpose the OTP form is for
RenderDone ==
    pc = "idle" /\ fault = "none" /\ body /\ view = "EMPLOYEE_DASHBOARD"

\* C11: in revisions A and B, once clockIn / clockOut was answered with
\* requiresOTP the client is in PENDING_OTP with the matching purpose, and
\* every later complete render of the employee dashboard shows the OTP form
\* for that purpose until the OTP is verified or the flow is cancelled.
C11_PendingOtpPersists ==
    (rev \in {"A", "B"} /\ otpAsked # "none") =>
        /\ rev = "B" => otp_purpose = otpAsked
                        /\ otp_action = (IF otpAsked = "EARLYCLOCKIN" THEN "clockIn"
                                         ELSE "clockOut")
        /\ RenderDone => otp_form = otpAsked

\* the pending flow of revision B
PendingOtp == otp_purpose # Absent /\ Truthy(otp_purpose)

\* C12: in revision B, a step leaves PENDING_OTP exactly when the OTP form
\* handles Cancel or a resubmission with an OTP that the backend answers with
\* success; generateOTP, whether it succeeds or fails, a failed verification
\* and an ill-formed OTP keep PENDING_OTP.
C12_OtpStaysPending ==
    [][(rev = "B" /\ PendingOtp) =>
          (~PendingOtp' <=>
              /\ pc = "otp_flow"
              /\ \/ event.kind = "otp_cancel"
                 \/ /\ event.kind = "otp_submit"
                    /\ "otp" \in DOMAIN lastReq'
                    /\ Succeeded(lastRes'))]_vars

C12_Witness ==
    /\ rev = "B"
    /\ PendingOtp
    /\ ReqAction = "generateOTP"
    /\ lastOut \in Exceptions
    /\ pc = "inventory_tab"

\* C13: in revision B, after a session teardown (logout or idle expiry) no
\* pending OTP flow remains.
C13_TeardownClearsOtp ==
    (rev = "B" /\ teardown \in {"button", "idle_expiry"}) => ~PendingOtp

\* exactly 6 characters, all decimal digits
SixDecimalDigits(s) ==
    /\ Len(s) = 6
    /\ \A i \in 1..Len(s) :
          SubSeq(s, i, i) \in {"0", "1", "2", "3", "4", "5", "6", "7", "8", "9"}

\* C14: in revisions A and B, when Verify OTP is pressed the resubmission
\* with the OTP is dispatched if and only if the entered OTP is exactly 6
\* decimal digits: the OTP form dispatches exactly the well-formed OTPs, a
\* rejected OTP causes no call and no state change, and no well-formed OTP
\* passes through a render without being handled.
C14_OtpFormat ==
    [][(rev \in {"A", "B"} /\ event.kind = "otp_submit") =>
          /\ pc = "otp_flow" =>
                ("otp" \in DOMAIN lastReq' <=> SixDecimalDigits(event.f1))
          /\ (pc = "otp_flow" /\ ~SixDecimalDigits(event.f1)) =>
                UNCHANGED <<callVars, sessVars, otpVars>>
          /\ pc = "logout_button" => ~SixDecimalDigits(event.f1)]_vars

\* C15: every login request that is sent has a non-empty identity field
\* (name / employeeId) and a non-empty second credential (employeeId /
\* password), and in revision V3 a password of exactly 12 characters.
C15_LoginFieldsSent ==
    ReqAction = "login" =>
        /\ \A k \in DOMAIN lastReq \ {"action"} : lastReq[k] # ""
        /\ rev = "V3" => Len(lastReq.password) = 12

\* C16: every useInventory request is dispatched by the inventory form and
\* carries a quantity in 1..50, the product of an item of the list that
\* getInventory returned in the same render, and that item's sellingPrice as
\* unitPrice.
C16_InventoryRequest ==
    [][(Get(lastReq', "action", "") = "useInventory" /\ lastReq' # lastReq) =>
          /\ pc = "inventory_form"
          /\ lastReq'.quantity \in 1..50
          /\ \E i \in 1..Len(local.items) :
                /\ local.items[i].product = lastReq'.item
                /\ local.items[i].sellingPrice = lastReq'.unitPrice]_vars

C16_Witness ==
    /\ ReqAction = "useInventory"
    /\ lastReq.item = "Soap"
    /\ lastReq.unitPrice = 150
    /\ lastReq.quantity = 50
    /\ lastOut = "json"

PasswordErrors == {"enter_and_confirm", "password_length", "passwords_differ"}
PasswordAccepted(ev) == Len(ev.f1) = 12 /\ ev.f1 = ev.f2

ActionStep ==
    \/ pc = "login_page" /\ event.kind = "login_submit"
    \/ pc = "attendance_buttons" /\ event.kind \in {"clock_in", "clock_out"}
    \/ pc = "inventory_form" /\ event.kind = "inv_submit"
    \/ pc = "otp_flow" /\ event.kind = "otp_submit"
FailedNoFlag(r) ==
    ~Succeeded(r) /\ ~Flagged(r, "requiresOTP") /\ ~Flagged(r, "requiresApproval")

C19_TransportKeepsSession == teardown \in GuardSites => guard[2] # "no_reply"

ActionFlows ==
    {"login", "clockIn", "clockOut", "useInventory", "generateOTP",
     "setEmployeePassword"}

\* C20: an action flow whose request ended in a transport failure ends
\* without an uncaught exception and has displayed a message.
C20_NoFaultOnTransportFailure ==
    (lastOut \in Exceptions /\ ReqAction \in ActionFlows) =>
        fault = "none" /\ notice # {}

\* a step that performs a guarded access: check_session in main, or
\* require_auth / require_role at the top of a page function
GuardStep == pc \in {"main_session", "employee_dashboard", "admin_dashboard", "guarded_page"}

\* C21 (as claimed): once a guarded access has seen an idle time of at most
\* 600 s, the session is authenticated with last_activity = now for the rest
\* of the script run, unless the user pressed Logout.
C21_AccessKeepsSession ==
    (accessIdle \in 0..IDLE_LIMIT /\ teardown # "button" /\ pc # "idle")
    => Truthy(session_token) /\ last_activity = now

\* C21 (amended): a guarded access on an authenticated session with idle
\* time of at most 600 s (600 s included) sets last_activity to now and
\* clears nothing itself; one with idle time above 600 s clears the session
\* and leaves last_activity empty.  A session whose last access was within
\* the limit is torn down only by the Logout button or, in revisions A and B,
\* by main after a checkSession that did not return valid=true.
C21_RefreshWithinLimit ==
    [][/\ (GuardStep /\ Truthy(session_token) /\ last_activity # NoTime) =>
             IF now - last_activity <= IDLE_LIMIT
             THEN /\ last_activity' = now
                  /\ session_token' = session_token
                  /\ accessIdle' = now - last_activity
             ELSE /\ last_activity' = NoTime
                  /\ ~Truthy(session_token')
       /\ (/\ Truthy(session_token) /\ ~Truthy(session_token')
           /\ accessIdle \in 0..IDLE_LIMIT) =>
             /\ pc \in {"main_logout", "button_logout"}
             /\ pc = "main_logout" =>
                   /\ rev \in {"A", "B"}
                   /\ guard \in {<<"main", "invalid">>, <<"main", "no_reply">>}]_vars

C21_Witness ==
    /\ accessIdle = IDLE_LIMIT
    /\ guard[2] = "ok"
    /\ last_activity = now
    /\ now >= IDLE_LIMIT
    /\ Truthy(session_token)

SessionFields == <<session_token, employee_id, employee_name, role>>

\* C22: a step that changes session_token, employee_id, employee_name or
\* role is the login form storing a login reply, a logout() call, or the
\* idle expiry inside check_session; every other step, whatever the backend
\* returns to it, leaves the four fields unchanged.
C22_SessionFrame ==
    [][SessionFields' # SessionFields =>
          \/ /\ pc = "login_page"
             /\ event.kind = "login_submit"
             /\ lastReq'.action = "login"
          \/ /\ pc \in DOMAIN LogoutSite
             /\ AllKeysNone'
          \/ /\ GuardStep
             /\ teardown' = "idle_expiry"
             /\ AllKeysNone']_vars

C22_Witness ==
    /\ ReqAction \in {"clockIn", "processApproval", "sendMessage"}
    /\ lastOut = "json"
    /\ Succeeded(lastRes)
    /\ session_token = "abc"
    /\ employee_name = "Jane"
    /\ role \in Roles

OtpPairs ==
    {<<Absent, Absent>>, <<"EARLYCLOCKIN", "clockIn">>, <<"OVERTIME", "clockOut">>}

\* C23: in revisions A and B the stored pair (otp_purpose, otp_action) is
\* always absent or one of (EARLYCLOCKIN, clockIn), (OVERTIME, clockOut), and
\* a request that carries an OTP is made by Verify OTP with the action tag
\* clockIn or clockOut (in revision B: the stored otp_action of the pending
\* flow), the OTP typed, the session token and nothing else.
C23_OtpPair ==
    [][(rev = "A" \/ rev = "B") =>
          /\ <<otp_purpose, otp_action>> \in OtpPairs
          /\ <<otp_purpose', otp_action'>> \in OtpPairs
          /\ ("otp" \in DOMAIN lastReq' /\ lastReq' # lastReq) =>
                /\ event.kind = "otp_submit"
                /\ lastReq'.otp = event.f1
                /\ DOMAIN lastReq' = {"action", "otp", "sessionToken"}
                /\ lastReq'.action \in {"clockIn", "clockOut"}
                /\ rev = "B" => (/\ pc = "otp_flow"
                                 /\ otp_purpose # Absent
                                 /\ lastReq'.action = otp_action)]_vars

C23_Witness ==
    /\ rev = "B"
    /\ "otp" \in DOMAIN lastReq
    /\ lastReq.action = "clockOut"
    /\ lastReq.otp = "123456"
    /\ otp_purpose = "OVERTIME"
    /\ otp_action = "clockOut"

ApprovalPressed ==
    /\ pc = "approval_buttons"
    /\ event.kind \in {"approve", "reject"}
    /\ event.f1 \in buttons

\* C24: in revisions A and V3, pressing Approve or Reject (Deny) on a listed
\* approval dispatches one request that carries the id of that approval and
\* the decision; the confirmation and the rerun that refetches the list
\* happen only when the result has success=true, and a result without
\* success shows an error.
C24_ApprovalOutcome ==
    [][ApprovalPressed =>
          /\ Get(lastReq', "action", "") = ApprovalAction
          /\ lastReq'.approvalId = event.f1
          /\ Get(lastReq', IF rev = "A" THEN "approved" ELSE "approve", NoneV)
                = (IF event.kind = "approve" THEN TrueV ELSE FalseV)
          /\ (pc' = "start" \/ notice' \cap {"approved", "rejected"} # {})
                => Succeeded(lastRes')
          /\ ~Succeeded(lastRes') => "approval_failed" \in notice']_vars

\* the same for revision V3 alone
C24_ApprovalOutcomeV3 ==
    [][(rev = "V3" /\ ApprovalPressed) =>
          /\ Get(lastReq', "action", "") = "processApproval"
          /\ lastReq'.approvalId = event.f1
          /\ lastReq'.approve = (IF event.kind = "approve" THEN TrueV ELSE FalseV)
          /\ (pc' = "start" \/ notice' \cap {"approved", "rejected"} # {})
                <=> Succeeded(lastRes')
          /\ ~Succeeded(lastRes') => "approval_failed" \in notice']_vars

\* C25: in revision V3, when clockIn / clockOut is answered with success=false
\* and requiresApproval=true, the client stores a pending flow with purpose
\* EARLY_CLOCK_IN (clockIn) or OVERTIME (clockOut) and the triggering action.
C25_ApprovalPending ==
    [][(/\ rev = "V3"
        /\ pc = "attendance_buttons"
        /\ event.kind \in {"clock_in", "clock_out"}
        /\ callVars' # callVars
        /\ ~Succeeded(lastRes')
        /\ Flagged(lastRes', "requiresApproval")) =>
          /\ otp_purpose' = (IF event.kind = "clock_in" THEN "EARLY_CLOCK_IN"
                             ELSE "OVERTIME")
          /\ otp_action' = lastReq'.action]_vars

\* C26: from the idle expiry of a guarded access (idle time above 600 s)
\* until the login view that follows has been rendered, the "session
\* expired" notice is on display.
C26_ExpiryNotice ==
    (teardown = "idle_expiry" /\ accessIdle > IDLE_LIMIT) => "session_expired" \in notice

AdminActions ==
    {"getPendingApprovals", "adminApprove", "processApproval", "getAllEmployees",
     "getRecentLogs", "setEmployeePassword", "getEmployeePayslip",
     "getEmployeeInventory", "getAdminDashboard"}

\* C27: a request with an admin-only action is made only by the body of the
\* admin dashboard, past require_role('ADMIN'), on a session that has a token
\* and role ADMIN before and after the request, and it carries that token.
C27_AdminOnly ==
    [][(Get(lastReq', "action", "") \in AdminActions
        /\ <<lastReq', lastOut'>> # <<lastReq, lastOut>>) =>
          /\ view = "ADMIN_DASHBOARD" /\ body
          /\ guard = <<"require_role", "ok">>
          /\ Truthy(session_token) /\ role = "ADMIN"
          /\ session_token' = session_token /\ role' = role
          /\ lastReq'.sessionToken = session_token]_vars

C27_Witness ==
    /\ ReqAction = "getEmployeeInventory"
    /\ lastReq.employeeId = "E1"
    /\ role = "ADMIN"
    /\ session_token = "abc"

\* a step in which logout() runs: a call site of main, the guards or the
\* Logout button, or the idle expiry inside check_session
LogoutStep ==
    \/ pc \in DOMAIN LogoutSite
    \/ GuardStep /\ teardown' = "idle_expiry"

\* C28: logout() posts the 'logout' request exactly when a token is present;
\* the request carries the token being torn down and every session key is
\* None afterwards; and while no token is held no request carries one.
C28_LogoutRequest ==
    [][/\ (LogoutStep /\ Truthy(session_token)) =>
             /\ lastReq' = [action |-> "logout", sessionToken |-> session_token]
             /\ AllKeysNone'
       /\ (LogoutStep /\ ~Truthy(session_token)) => UNCHANGED callVars
       /\ (Get(lastReq', "action", "") = "logout"
           /\ <<lastReq', lastOut'>> # <<lastReq, lastOut>>) =>
             LogoutStep /\ Truthy(session_token)
       /\ (~Truthy(session_token) /\ lastReq' # lastReq) =>
             "sessionToken" \notin DOMAIN lastReq']_vars

C28_Witness ==
    /\ teardown = "button"
    /\ lastReq = [action |-> "logout", sessionToken |-> "abc"]
    /\ lastOut = "json"
    /\ session_token = NoneV
    /\ pc = "login_page"

\* C29: between script runs, a session with a non-empty session_token has a
\* last_activity.
C29_TokenHasActivity ==
    (pc = "idle" /\ Truthy(session_token)) => last_activity # NoTime

\* C30: a useInventory request is made only by the inventory form; the form
\* is reached only from the getInventory call of the same script run, when
\* it returned success; and that call is reached only from the
\* getTodayAttendance call of inventory_tab, when it returned success with
\* clockedIn true.
C30_InventoryGate ==
    [][/\ (Get(lastReq', "action", "") = "useInventory" /\ lastReq' # lastReq) =>
             pc = "inventory_form"
       /\ pc' = "inventory_form" =>
             /\ pc = "inventory_fetch"
             /\ Get(lastReq', "action", "") = "getInventory"
             /\ Succeeded(lastRes')
       /\ pc' = "inventory_fetch" =>
             /\ pc = "inventory_tab"
             /\ Get(lastReq', "action", "") = "getTodayAttendance"
             /\ Succeeded(lastRes')
             /\ Truthy(Get(AttendanceOf(lastRes'), "clockedIn", NoneV))]_vars

C30_Witness ==
    /\ ReqAction = "useInventory"
    /\ lastOut = "json"
    /\ "transaction_done" \in notice
    /\ view = "EMPLOYEE_DASHBOARD"
    /\ fault = "none"

====
